---------------------------- MODULE Spec2Model ----------------------------
(***************************************************************************)
(* A model of rust-webvr's OpenVR device (src/api/openvr/device.rs) and    *)
(* GoogleVR gamepad (src/api/googlevr/gamepad.rs).                         *)
(*                                                                         *)
(* Numbers.  f32 values are modelled as exact reals.                       *)
(*  - Times are integers counted in ticks of 1/TicksPerSecond second, a    *)
(*    unit in which 0.04 s and the frame durations of the modelled display *)
(*    frequencies are whole numbers.                                       *)
(*  - Matrix entries, positions and velocities are integers.               *)
(*  - A quaternion computed by rot_matrix_to_quat is kept over the common  *)
(*    denominator 2*s, s = sqrt(s2): the record [s2, x, y, z, w] stands    *)
(*    for (x, y, z, w) / (2 * sqrt(s2)).  Every product of two components  *)
(*    is then the rational x*y / (4*s2), so norms and the rotation matrix  *)
(*    of a quaternion are computed without rounding.                       *)
(* An Option<T> is a sequence of length 0 (None) or 1 (Some).              *)
(***************************************************************************)
EXTENDS Integers, Sequences, FiniteSets, TLC

VARIABLES
    vsync,        \* vendor: GetTimeSinceLastVsync, None when the query fails
    props,        \* vendor: float properties [freq, v2p], each an Option
    tracked,      \* vendor: the pose sample of the device's index, now
    eye_to_head,  \* vendor: GetEyeToHeadTransform per eye
    device,       \* the OpenVRDevice struct
    seconds,      \* the prediction time the last poll passed to the vendor
    fetched,      \* tracked_poses[self.index] of the last poll (a local)
    runtime,      \* vendor: the display's description and its compositor
    ret,          \* the last call and the value it returned
    controller,   \* vendor: the controller's state, now
    gamepad,      \* the GoogleVRGamepad struct; .state is the buffer it owns
    polls,        \* per polling thread: where its state() call stands, and out
    events        \* where handle_events stands, and the pause/resume calls
                  \* the vendor's controller API has received

vars == <<vsync, props, tracked, eye_to_head, device, seconds, fetched, runtime,
          ret, controller, gamepad, polls, events>>

openvr_vars == <<vsync, props, tracked, eye_to_head, device, seconds, fetched,
                 runtime>>

googlevr_vars == <<controller, gamepad, polls, events>>

-----------------------------------------------------------------------------
(* Option<T> *)

None == <<>>

Some(x) == <<x>>

unwrap_or(opt, default) == IF opt = None THEN default ELSE opt[1]

Option(S) == {None} \cup {Some(x) : x \in S}

-----------------------------------------------------------------------------
(* Bounds of the model *)

\* last-vsync times run over 0..MaxVsyncTicks ticks
MaxVsyncTicks == 40

\* vsync-to-photon latencies run over 0..MaxPhotonTicks ticks
MaxPhotonTicks == 20

\* tracked positions run over MaxCoord + 1 points
MaxCoord == 1

-----------------------------------------------------------------------------
(* Vsync/photon time prediction: get_seconds_to_photons *)

\* unwrap_or(90.0)
DefaultHz == 90

\* ticks per second: 0.04 s = 72 ticks, 1/90 s = 20 ticks
TicksPerSecond == DefaultHz * 20

\* let average_value = 0.04f32
average_value == (4 * TicksPerSecond) \div 100

\* display frequencies the vendor may report
Frequencies == {60, 90, 120}

\* variant: no fallback, a missing measurement counts as 0
get_seconds_to_photons_unchecked(last_vsync, display_hz, vsync_to_photon) ==
    LET display_freq == unwrap_or(display_hz, DefaultHz)
        frame_duration == TicksPerSecond \div display_freq
    IN  frame_duration - unwrap_or(last_vsync, 0) + unwrap_or(vsync_to_photon, 0)

\* variant: last vsync and frame duration exchanged
get_seconds_to_photons_operands_swapped(last_vsync, display_hz, vsync_to_photon) ==
    IF last_vsync = None
    THEN average_value
    ELSE LET display_freq == unwrap_or(display_hz, DefaultHz)
             frame_duration == TicksPerSecond \div display_freq
         IN  IF vsync_to_photon # None
             THEN last_vsync[1] - frame_duration + vsync_to_photon[1]
             ELSE average_value

\* variant: a 60 Hz default frequency
get_seconds_to_photons_default_hz_60(last_vsync, display_hz, vsync_to_photon) ==
    IF last_vsync = None
    THEN average_value
    ELSE LET display_freq == unwrap_or(display_hz, 60)
             frame_duration == TicksPerSecond \div display_freq
         IN  IF vsync_to_photon # None
             THEN frame_duration - last_vsync[1] + vsync_to_photon[1]
             ELSE average_value

\* The three arguments are what GetTimeSinceLastVsync and the two
\* get_float_property calls return.
get_seconds_to_photons(last_vsync, display_hz, vsync_to_photon) ==
    IF last_vsync = None
    THEN \* no vsync times are available, return a default average value
         average_value
    ELSE LET seconds_last_vsync == last_vsync[1]
             display_freq == unwrap_or(display_hz, DefaultHz)
             frame_duration == TicksPerSecond \div display_freq
         IN  IF vsync_to_photon # None
             THEN frame_duration - seconds_last_vsync + vsync_to_photon[1]
             ELSE average_value

-----------------------------------------------------------------------------
(* Matrices.  An HmdMatrix34_t is a tuple of 3 rows of 4 entries, m[i][j]  *)
(* holding the code's matrix.m[i-1][j-1]; a [f32; 16] is a 16-tuple.       *)

openvr_matrix34_to_array(matrix) ==
    << matrix[1][1], matrix[1][2], matrix[1][3], matrix[1][4],
       matrix[2][1], matrix[2][2], matrix[2][3], matrix[2][4],
       matrix[3][1], matrix[3][2], matrix[3][3], matrix[3][4],
       0, 0, 0, 1 >>

openvr_matrix44_to_array(matrix) ==
    << matrix[1][1], matrix[1][2], matrix[1][3], matrix[1][4],
       matrix[2][1], matrix[2][2], matrix[2][3], matrix[2][4],
       matrix[3][1], matrix[3][2], matrix[3][3], matrix[3][4],
       matrix[4][1], matrix[4][2], matrix[4][3], matrix[4][4] >>

openvr_matrix_to_position(matrix) ==
    << matrix[1][4], matrix[2][4], matrix[3][4] >>

\* utils::identity_matrix!()
identity_matrix ==
    << 1, 0, 0, 0,
       0, 1, 0, 0,
       0, 0, 1, 0,
       0, 0, 0, 1 >>

\* utils::multiply_matrix(a, b, out): out = a x b, the arrays read row by row
multiply_matrix(a, b) ==
    [ i \in 1..16 |->
        LET r == (i - 1) \div 4
            c == (i - 1) % 4
        IN  a[4*r + 1] * b[c + 1] + a[4*r + 2] * b[c + 5]
              + a[4*r + 3] * b[c + 9] + a[4*r + 4] * b[c + 13] ]

-----------------------------------------------------------------------------
(* Matrix to quaternion *)

\* sqrt of a squared length; the modelled inputs keep it a whole number
ISqrt(n) == CHOOSE r \in 0..n : r * r = n

\* "normalize transform": one column (a, b, c) of the rotation part
NormalizeColumn(a, b, c) ==
    LET len == a * a + b * b + c * c
    IN  IF len # 1 /\ len # 0
        THEN << a \div ISqrt(len), b \div ISqrt(len), c \div ISqrt(len) >>
        ELSE << a, b, c >>

\* variant: the trace branch taken whatever the trace
rot_matrix_to_quat_trace_only(a00, a01, a02, a10, a11, a12, a20, a21, a22) ==
    LET s2 == a00 + a11 + a22 + 1
    IN  [ s2 |-> s2, x |-> a21 - a12, y |-> a02 - a20, z |-> a10 - a01, w |-> s2 ]

\* variant: below a negative trace, the smaller diagonal entry chosen
rot_matrix_to_quat_smaller_diagonal(a00, a01, a02, a10, a11, a12, a20, a21, a22) ==
    LET c0 == NormalizeColumn(a00, a10, a20)
        c1 == NormalizeColumn(a01, a11, a21)
        c2 == NormalizeColumn(a02, a12, a22)
        m00 == c0[1]  m10 == c0[2]  m20 == c0[3]
        m01 == c1[1]  m11 == c1[2]  m21 == c1[3]
        m02 == c2[1]  m12 == c2[2]  m22 == c2[3]
        t == m00 + m11 + m22
    IN  IF t >= 0
        THEN LET s2 == t + 1
             IN  [ s2 |-> s2, x |-> m21 - m12, y |-> m02 - m20,
                   z |-> m10 - m01, w |-> s2 ]
        ELSE IF (m00 < m11) /\ (m00 < m22)
        THEN LET s2 == 1 + m00 - m11 - m22
             IN  [ s2 |-> s2, x |-> s2, y |-> m10 + m01,
                   z |-> m02 + m20, w |-> m21 - m12 ]
        ELSE IF m11 < m22
        THEN LET s2 == 1 + m11 - m00 - m22
             IN  [ s2 |-> s2, x |-> m10 + m01, y |-> s2,
                   z |-> m21 + m12, w |-> m02 - m20 ]
        ELSE LET s2 == 1 + m22 - m00 - m11
             IN  [ s2 |-> s2, x |-> m02 + m20, y |-> m21 + m12,
                   z |-> s2, w |-> m10 - m01 ]

\* The result [s2, x, y, z, w] stands for (x, y, z, w) / (2 * s), s = sqrt(s2):
\* the code's dominant component 0.5 * s is s2 / (2 * s), and each other
\* component d * (0.5 / s) is d / (2 * s).
rot_matrix_to_quat(a00, a01, a02, a10, a11, a12, a20, a21, a22) ==
    LET \* normalize transform
        c0 == NormalizeColumn(a00, a10, a20)
        c1 == NormalizeColumn(a01, a11, a21)
        c2 == NormalizeColumn(a02, a12, a22)
        m00 == c0[1]  m10 == c0[2]  m20 == c0[3]
        m01 == c1[1]  m11 == c1[2]  m21 == c1[3]
        m02 == c2[1]  m12 == c2[2]  m22 == c2[3]
        \* Decompose quaterion
        t == m00 + m11 + m22
    IN  IF t >= 0
        THEN LET s2 == t + 1
             IN  [ s2 |-> s2, x |-> m21 - m12, y |-> m02 - m20,
                   z |-> m10 - m01, w |-> s2 ]
        ELSE IF (m00 > m11) /\ (m00 > m22)
        THEN LET s2 == 1 + m00 - m11 - m22
             IN  [ s2 |-> s2, x |-> s2, y |-> m10 + m01,
                   z |-> m02 + m20, w |-> m21 - m12 ]
        ELSE IF m11 > m22
        THEN LET s2 == 1 + m11 - m00 - m22
             IN  [ s2 |-> s2, x |-> m10 + m01, y |-> s2,
                   z |-> m21 + m12, w |-> m02 - m20 ]
        ELSE LET s2 == 1 + m22 - m00 - m11
             IN  [ s2 |-> s2, x |-> m02 + m20, y |-> m21 + m12,
                   z |-> s2, w |-> m10 - m01 ]

\* variant: columns 1..3 of the 3x4 matrix taken for columns 0..2
openvr_matrix_to_quat_shifted(matrix) ==
    rot_matrix_to_quat(matrix[1][2], matrix[1][3], matrix[1][4],
                       matrix[2][2], matrix[2][3], matrix[2][4],
                       matrix[3][2], matrix[3][3], matrix[3][4])

openvr_matrix_to_quat(matrix) ==
    rot_matrix_to_quat(matrix[1][1], matrix[1][2], matrix[1][3],
                       matrix[2][1], matrix[2][2], matrix[2][3],
                       matrix[3][1], matrix[3][2], matrix[3][3])

-----------------------------------------------------------------------------
(* What the tracking subsystem may report *)

Permutations3 ==
    { p \in [1..3 -> 1..3] : \A i, j \in 1..3 : (i # j) => (p[i] # p[j]) }

PermutationSign(p) ==
    IF p \in { <<1, 2, 3>>, <<2, 3, 1>>, <<3, 1, 2>> } THEN 1 ELSE -1

\* the 24 rotations that map the coordinate axes onto coordinate axes, as
\* tuples of 3 rows of 3 entries
AxisRotations ==
    { [ i \in 1..3 |-> [ j \in 1..3 |-> IF p[i] = j THEN sg[i] ELSE 0 ] ] :
        <<p, sg>> \in { ps \in Permutations3 \X [1..3 -> {-1, 1}] :
            PermutationSign(ps[1]) * ps[2][1] * ps[2][2] * ps[2][3] = 1 } }

Positions == { << a, a + 1, 0 - 2 * a >> : a \in 0..MaxCoord }

\* the 3x4 transform with rotation part R and translation column p
Transform(R, p) == [ i \in 1..3 |-> << R[i][1], R[i][2], R[i][3], p[i] >> ]

Transforms == { Transform(R, p) : R \in AxisRotations, p \in Positions }

\* the longest column of a reported matrix that is no rotation
MaxScale == 2

\* columns along one axis, of any length up to MaxScale, and the zero column
AxisColumns ==
    { [ i \in 1..3 |-> IF i = axis THEN k ELSE 0 ] :
        axis \in 1..3, k \in (0 - MaxScale)..MaxScale }

\* 3x4 matrices of three such columns: rotations, reflections, scaled and
\* singular matrices, the zero matrix
AnyTransforms ==
    { [ i \in 1..3 |-> << c0[i], c1[i], c2[i], i - 2 >> ] :
        c0 \in AxisColumns, c1 \in AxisColumns, c2 \in AxisColumns }

IdentityRotation == << <<1, 0, 0>>, <<0, 1, 0>>, <<0, 0, 1>> >>

\* the rotation part of a 3x4 transform
RotationPart(m) == [ i \in 1..3 |-> << m[i][1], m[i][2], m[i][3] >> ]

\* the product of two rotations
Compose(A, B) ==
    [ i \in 1..3 |-> [ j \in 1..3 |->
        A[i][1] * B[1][j] + A[i][2] * B[2][j] + A[i][3] * B[3][j] ] ]

\* a quarter turn about the vertical (y) axis
YawQuarterTurn == << <<0, 0, 1>>, <<0, 1, 0>>, <<-1, 0, 0>> >>

\* (vVelocity, vAngularVelocity) pairs
Velocities == { << <<0, 0, 0>>, <<0, 0, 0>> >>, << <<1, -1, 2>>, <<0, 3, -3>> >> }

\* TrackedDevicePose_t: a sample whose bPoseIsValid is 0 carries any transform
PoseSamples ==
    { [ bPoseIsValid |-> v, mDeviceToAbsoluteTracking |-> m,
        vVelocity |-> vel[1], vAngularVelocity |-> vel[2] ] :
        v \in {0, 1}, m \in Transforms, vel \in Velocities }

EVREye == {"Eye_Left", "Eye_Right"}

\* GetEyeToHeadTransform per eye: parallel displays half an IPD apart, or
\* displays canted about the vertical axis
EyeConfigs ==
    { [ Eye_Left  |-> Transform(IdentityRotation, <<-1, 0, 0>>),
        Eye_Right |-> Transform(IdentityRotation, <<1, 0, 0>>) ],
      [ Eye_Left  |-> Transform(<< <<0, 0, 1>>, <<0, 1, 0>>, <<-1, 0, 0>> >>, <<-1, 0, 0>>),
        Eye_Right |-> Transform(<< <<0, 0, -1>>, <<0, 1, 0>>, <<1, 0, 0>> >>, <<1, 0, 0>>) ] }

\* GetProjectionMatrix(eye, near, far, API_OpenGL): the vendor's 4x4 matrix,
\* opaque to the device, which only repacks it
GetProjectionMatrix(eye, near, far) ==
    << << 1, 0, IF eye = "Eye_Left" THEN -1 ELSE 1, 0 >>,
       << 0, 1, 0, 0 >>,
       << 0, 0, 0 - (far + near), 0 - 2 * far * near >>,
       << 0, 0, -1, 0 >> >>

\* (near_z, far_z) arguments of get_frame_data
ClipPlanes == { <<1, 2>>, <<1, 3>> }

-----------------------------------------------------------------------------
(* The OpenVR device *)

\* VRPose::default()
VRPose_default ==
    [ orientation |-> None, position |-> None,
      linear_velocity |-> None, angular_velocity |-> None,
      linear_acceleration |-> None, angular_acceleration |-> None ]

NoCall == [ call |-> "none" ]

\* OpenVRDevice::new: the compositor pointer starts null
OpenVRDevice_new == [ device_id |-> 1, index |-> 0, compositor |-> "null" ]

\* GetDeviceToAbsoluteTrackingPose(Seated, seconds, &mut tracked_poses[0], count)
\* fills the call's own array; the entry at self.index is the sample now
GetDeviceToAbsoluteTrackingPose == tracked

\* variant: the validity flag not looked at
pose_of_unchecked(device_pose) ==
    [ VRPose_default EXCEPT
        !.orientation = Some(openvr_matrix_to_quat(device_pose.mDeviceToAbsoluteTracking)),
        !.position = Some(openvr_matrix_to_position(device_pose.mDeviceToAbsoluteTracking)),
        !.linear_velocity = Some(device_pose.vVelocity),
        !.angular_velocity = Some(device_pose.vAngularVelocity) ]

\* get_pose, from the fetched sample on
pose_of(device_pose) ==
    IF device_pose.bPoseIsValid = 0
    THEN \* For some reason the pose may not be valid, return a empty one
         VRPose_default
    ELSE [ VRPose_default EXCEPT
             !.orientation = Some(openvr_matrix_to_quat(device_pose.mDeviceToAbsoluteTracking)),
             !.position = Some(openvr_matrix_to_position(device_pose.mDeviceToAbsoluteTracking)),
             !.linear_velocity = Some(device_pose.vVelocity),
             !.angular_velocity = Some(device_pose.vAngularVelocity) ]

\* variant: the validity flag not looked at
view_matrix_of_unchecked(pose) ==
    openvr_matrix34_to_array(pose.mDeviceToAbsoluteTracking)

\* fetch_view_matrix, from the fetched sample on
view_matrix_of(pose) ==
    IF pose.bPoseIsValid = 0
    THEN identity_matrix
    ELSE openvr_matrix34_to_array(pose.mDeviceToAbsoluteTracking)

fetch_projection_matrix(eye, near, far) ==
    openvr_matrix44_to_array(GetProjectionMatrix(eye, near, far))

fetch_eye_to_head_matrix(eye) == openvr_matrix34_to_array(eye_to_head[eye])

\* get_frame_data, from the fetched sample on
frame_data_of(pose, near_z, far_z) ==
    LET view_matrix == view_matrix_of(pose)
        left_eye == fetch_eye_to_head_matrix("Eye_Left")
        right_eye == fetch_eye_to_head_matrix("Eye_Right")
    IN  [ left_projection_matrix |-> fetch_projection_matrix("Eye_Left", near_z, far_z),
          right_projection_matrix |-> fetch_projection_matrix("Eye_Right", near_z, far_z),
          left_view_matrix |-> multiply_matrix(view_matrix, left_eye),
          right_view_matrix |-> multiply_matrix(view_matrix, right_eye) ]

\* variant: the sample of an earlier poll reused
get_pose_cached ==
    /\ seconds' = Some(get_seconds_to_photons(vsync, props.freq, props.v2p))
    /\ fetched' = IF fetched = None THEN Some(GetDeviceToAbsoluteTrackingPose) ELSE fetched
    /\ ret' = [ call |-> "get_pose", pose |-> pose_of(fetched'[1]) ]
    /\ UNCHANGED <<vsync, props, tracked, eye_to_head, device, runtime>>
    /\ UNCHANGED googlevr_vars

get_pose ==
    /\ seconds' = Some(get_seconds_to_photons(vsync, props.freq, props.v2p))
    /\ fetched' = Some(GetDeviceToAbsoluteTrackingPose)
    /\ ret' = [ call |-> "get_pose", pose |-> pose_of(fetched'[1]) ]
    /\ UNCHANGED <<vsync, props, tracked, eye_to_head, device, runtime>>
    /\ UNCHANGED googlevr_vars

get_frame_data ==
    \E clip \in ClipPlanes :
        /\ seconds' = Some(get_seconds_to_photons(vsync, props.freq, props.v2p))
        /\ fetched' = Some(GetDeviceToAbsoluteTrackingPose)
        /\ ret' = [ call |-> "get_frame_data", near_z |-> clip[1], far_z |-> clip[2],
                    data |-> frame_data_of(fetched'[1], clip[1], clip[2]) ]
        /\ UNCHANGED <<vsync, props, tracked, eye_to_head, device, runtime>>
        /\ UNCHANGED googlevr_vars

\* The tracking subsystem moves on to another sample: the device turns a
\* quarter to the side (from any of the 24 orientations it may start in),
\* moves to another position, changes velocity, or tracking is lost or regained.
TrackingUpdate ==
    /\ \/ tracked' = [ tracked EXCEPT !.mDeviceToAbsoluteTracking =
                Transform(Compose(YawQuarterTurn, RotationPart(@)),
                          openvr_matrix_to_position(@)) ]
       \/ \E p \in Positions :
            /\ p # openvr_matrix_to_position(tracked.mDeviceToAbsoluteTracking)
            /\ tracked' = [ tracked EXCEPT !.mDeviceToAbsoluteTracking =
                            Transform(RotationPart(@), p) ]
       \/ \E vel \in Velocities :
            /\ vel # << tracked.vVelocity, tracked.vAngularVelocity >>
            /\ tracked' = [ tracked EXCEPT !.vVelocity = vel[1],
                                           !.vAngularVelocity = vel[2] ]
       \/ tracked' = [ tracked EXCEPT !.bPoseIsValid = 1 - @ ]
    /\ UNCHANGED <<vsync, props, eye_to_head, device, seconds, fetched, runtime, ret>>
    /\ UNCHANGED googlevr_vars

-----------------------------------------------------------------------------
(* The display's description and the submission of frames.                 *)
(* Raw tangents are integers counted in thousandths, angles in whole       *)
(* degrees, lengths in millimetres, texture coordinates in halves.         *)

\* f32::atan followed by f32::to_degrees on the tangents of the model: pairs
\* of a tangent (in thousandths) and its angle (in degrees), for angles >= 0
TangentTable == { <<0, 0>>, <<176, 10>>, <<577, 30>>, <<1000, 45>> }

\* t.atan().to_degrees(); atan is odd
atan_to_degrees(t) ==
    LET a == IF t < 0 THEN 0 - t ELSE t
        d == (CHOOSE p \in TangentTable : p[1] = a)[2]
    IN  IF t < 0 THEN 0 - d ELSE d

\* raw tangents the vendor may report for one side of an eye's frustum
Tangents == { 0 - 577, 0 - 176, 176, 1000 }

\* GetProjectionRaw's four out-values for one eye
RawProjections == [ left : Tangents, right : Tangents, top : Tangents, bottom : Tangents ]

\* the other eye's frustum: the same one, mirrored left to right
Mirrored(raw) ==
    [ left |-> 0 - raw.right, right |-> 0 - raw.left, top |-> raw.top, bottom |-> raw.bottom ]

\* the ipd used when the property cannot be read, in millimetres
DefaultIpd == 60

\* what the OpenVR runtime answers about the display, and whether its
\* compositor interface can be obtained
Runtimes ==
    { [ projection |-> [ Eye_Left |-> raw, Eye_Right |-> Mirrored(raw) ],
        ipd |-> ipd,
        render_size |-> <<1512, 1680>>,
        play_area |-> area,
        standing |-> Transform(IdentityRotation, <<0, 1, 0>>),
        names |-> [ ManufacturerName |-> Some("HTC"), ModelNumber |-> None ],
        compositor_available |-> c ] :
        raw \in RawProjections, ipd \in { None, Some(64) },
        area \in { None, Some(<<3, 2>>) }, c \in BOOLEAN }

\* the runtime of the specifications that do not query the display
NoDisplay ==
    CHOOSE r \in Runtimes :
        /\ r.projection.Eye_Left = [ left |-> 0 - 176, right |-> 176, top |-> 0 - 176, bottom |-> 176 ]
        /\ r.ipd = None /\ r.play_area = None /\ ~r.compositor_available

\* GetProjectionRaw(eye, pfLeft, pfRight, pfTop, pfBottom): the out-values in
\* the order of the vendor's parameters
GetProjectionRaw(eye) ==
    LET raw == runtime.projection[eye]
    IN  << raw.left, raw.right, raw.top, raw.bottom >>

\* variant: the out-values bound in the order the locals are declared,
\* (up, right, down, left)
fetch_field_of_view_declared_order(eye) ==
    LET out == GetProjectionRaw(eye)
        up == out[1]
        right == out[2]
        down == out[3]
        left == out[4]
    IN  [ up_degrees |-> 0 - atan_to_degrees(up),
          right_degrees |-> atan_to_degrees(right),
          down_degrees |-> atan_to_degrees(down),
          left_degrees |-> 0 - atan_to_degrees(left) ]

\* fetch_field_of_view: the call passes (&mut left, &mut right, &mut up, &mut down)
fetch_field_of_view(eye) ==
    LET out == GetProjectionRaw(eye)
        left == out[1]
        right == out[2]
        up == out[3]
        down == out[4]
    IN  [ up_degrees |-> 0 - atan_to_degrees(up),
          right_degrees |-> atan_to_degrees(right),
          down_degrees |-> atan_to_degrees(down),
          left_degrees |-> 0 - atan_to_degrees(left) ]

\* get_float_property(Prop_UserIpdMeters_Float)
get_float_property_ipd == runtime.ipd

\* get_string_property: the string, or "" when the property cannot be read
get_string_property(name) == unwrap_or(runtime.names[name], "")

\* fetch_eye_parameters: (left, right)
fetch_eye_parameters ==
    LET ipd_meters == unwrap_or(get_float_property_ipd, DefaultIpd)
        eye(e, offset) ==
            [ field_of_view |-> fetch_field_of_view(e),
              offset |-> << offset, 0, 0 >>,
              render_width |-> runtime.render_size[1],
              render_height |-> runtime.render_size[2] ]
    IN  << eye("Eye_Left", (0 - ipd_meters) \div 2), eye("Eye_Right", ipd_meters \div 2) >>

\* fetch_stage_parameters: the play area when the chaperone interface is
\* obtained, (0, 0) otherwise; the standing transform transposed and padded
fetch_stage_parameters ==
    LET size == unwrap_or(runtime.play_area, <<0, 0>>)
    IN  Some([ sitting_to_standing_transform |-> openvr_matrix34_to_array(runtime.standing),
               size_x |-> size[1], size_y |-> size[2] ])

\* get_display_data; display_name is the pair format!("{} {}", ..) joins
get_display_data ==
    /\ ret' = [ call |-> "get_display_data",
                data |-> [ capabilities |-> [ can_present |-> TRUE, has_orientation |-> TRUE,
                                              has_external_display |-> TRUE, has_position |-> TRUE ],
                           left_eye_parameters |-> fetch_eye_parameters[1],
                           right_eye_parameters |-> fetch_eye_parameters[2],
                           stage_parameters |-> fetch_stage_parameters,
                           display_id |-> device.device_id,
                           display_name |-> << get_string_property("ManufacturerName"),
                                               get_string_property("ModelNumber") >> ] ]
    /\ UNCHANGED openvr_vars
    /\ UNCHANGED googlevr_vars

\* the largest texture id a layer carries
MaxTextureId == 3

\* VRLayer values passed to submit_frame: a texture and, per eye, the bounds
\* (uMin, vMin, uWidth, vHeight) of its part of the texture
Layers ==
    { [ texture_id |-> id, left_bounds |-> b[1], right_bounds |-> b[2] ] :
        id \in 1..MaxTextureId,
        b \in { << <<0, 0, 1, 2>>, <<1, 0, 1, 2>> >>, << <<0, 0, 2, 1>>, <<0, 1, 2, 1>> >> } }

\* texture_bounds_to_openvr
texture_bounds_to_openvr(bounds) ==
    [ uMin |-> bounds[1], vMin |-> bounds[2],
      uMax |-> bounds[1] + bounds[3], vMax |-> bounds[2] + bounds[4] ]

\* VR_GetGenericInterface(IVRCOMPOSITOR_VERSION, &mut error): the interface
\* and no error, or null and an error
VR_GetGenericInterface_compositor ==
    IF runtime.compositor_available
    THEN [ interface |-> "IVRCompositor", error |-> "VRInitError_None" ]
    ELSE [ interface |-> "null", error |-> "VRInitError_Init_InterfaceNotFound" ]

\* ensure_compositor_initialized: the device afterwards
ensure_compositor_initialized(self) ==
    IF self.compositor # "null"
    THEN self
    ELSE LET got == VR_GetGenericInterface_compositor
         IN  [ self EXCEPT !.compositor =
                  IF got.error = "VRInitError_None" THEN "null" ELSE got.interface ]

\* the vendor calls submit_frame makes on a compositor
present(layer) ==
    LET texture == [ handle |-> layer.texture_id, eColorSpace |-> "ColorSpace_Auto",
                     eType |-> "API_OpenGL" ]
    IN  << [ fn |-> "Submit", eye |-> "Eye_Left", texture |-> texture,
             bounds |-> texture_bounds_to_openvr(layer.left_bounds) ],
           [ fn |-> "Submit", eye |-> "Eye_Right", texture |-> texture,
             bounds |-> texture_bounds_to_openvr(layer.right_bounds) ],
           [ fn |-> "PostPresentHandoff" ] >>

\* submit_frame(layer); ret records whether the call asked the vendor for the
\* compositor, and the calls it made on it
submit_frame ==
    \E layer \in Layers :
        /\ device' = ensure_compositor_initialized(device)
        /\ ret' = [ call |-> "submit_frame", layer |-> layer,
                    acquire |-> (device.compositor = "null"),
                    calls |-> IF device'.compositor = "null" THEN <<>> ELSE present(layer) ]
        /\ UNCHANGED <<vsync, props, tracked, eye_to_head, seconds, fetched, runtime>>
        /\ UNCHANGED googlevr_vars

-----------------------------------------------------------------------------
(* The GoogleVR gamepad *)

\* the threads that poll the gamepad
Pollers == {"poll_a", "poll_b"}

\* gvr_controller_state contents the vendor may report
ControllerSamples ==
    { [ connection_state |-> "GVR_CONTROLLER_CONNECTED", is_touching |-> TRUE,
        touch_pos |-> <<1, 0>>,
        button_state |-> [ CLICK |-> TRUE, HOME |-> FALSE, APP |-> TRUE,
                           VOLUME_UP |-> FALSE, VOLUME_DOWN |-> FALSE ],
        orientation |-> <<0, 0, 0, 1>>, accel |-> <<0, -9, 0>>, gyro |-> <<0, 0, 0>> ],
      [ connection_state |-> "GVR_CONTROLLER_CONNECTED", is_touching |-> FALSE,
        touch_pos |-> <<0, 0>>,
        button_state |-> [ CLICK |-> FALSE, HOME |-> TRUE, APP |-> FALSE,
                           VOLUME_UP |-> FALSE, VOLUME_DOWN |-> TRUE ],
        orientation |-> <<1, 0, 0, 0>>, accel |-> <<2, -9, 1>>, gyro |-> <<0, 3, 0>> ],
      [ connection_state |-> "GVR_CONTROLLER_DISCONNECTED", is_touching |-> FALSE,
        touch_pos |-> <<0, 1>>,
        button_state |-> [ CLICK |-> FALSE, HOME |-> FALSE, APP |-> FALSE,
                           VOLUME_UP |-> TRUE, VOLUME_DOWN |-> FALSE ],
        orientation |-> <<0, 1, 0, 0>>, accel |-> <<0, 0, 0>>, gyro |-> <<1, 1, 1>> ] }

\* VRGamepadState::default()
VRGamepadState_default ==
    [ gamepad_id |-> 0, connected |-> FALSE, axes |-> <<>>, buttons |-> <<>>,
      pose |-> VRPose_default ]

\* GoogleVRGamepad::new: the state buffer is created once, for the gamepad's
\* lifetime, and filled by a first gvr_controller_state_update
GoogleVRGamepad_new(sample) ==
    [ state |-> sample, gamepad_id |-> 1, display_id |-> 1,
      paused |-> FALSE, system_paused |-> FALSE ]

Idle == [ pc |-> "idle", out |-> VRGamepadState_default ]

\* state(), first part: out is created and gvr_controller_state_update copies
\* the controller's state into self.state
state_update(t) ==
    /\ polls[t].pc = "idle"
    /\ gamepad' = [ gamepad EXCEPT !.state = controller ]
    /\ polls' = [ polls EXCEPT ![t] =
            [ pc |-> "touchpad",
              out |-> [ VRGamepadState_default EXCEPT !.gamepad_id = gamepad.gamepad_id ] ] ]
    /\ UNCHANGED <<controller, ret, events>>
    /\ UNCHANGED openvr_vars

\* out after the connection state, the touchpad axes and the touchpad button
\* are read from the buffer
touchpad_read(out, buffer) ==
    LET touchpad_touching == buffer.is_touching
        pos == buffer.touch_pos
    IN  [ out EXCEPT
            !.connected = (buffer.connection_state = "GVR_CONTROLLER_CONNECTED"),
            !.axes = IF touchpad_touching
                     THEN << pos[1] * 2 - 1, pos[2] * 2 - 1 >>
                     ELSE << 0, 0 >>,
            !.buttons = Append(@, [ pressed |-> buffer.button_state.CLICK,
                                    touched |-> touchpad_touching ]) ]

\* the loop's buttons, in its order
ExtraButtons == << "HOME", "APP", "VOLUME_UP", "VOLUME_DOWN" >>

\* out after the loop over the extra buttons
buttons_read(out, buffer) ==
    [ out EXCEPT !.buttons = @ \o
        [ i \in 1..Len(ExtraButtons) |->
            [ pressed |-> buffer.button_state[ExtraButtons[i]],
              touched |-> buffer.button_state[ExtraButtons[i]] ] ] ]

\* out after orientation, accelerometer and gyroscope are read
motion_read(out, buffer) ==
    [ out EXCEPT !.pose.orientation = Some(buffer.orientation),
                 !.pose.linear_acceleration = Some(buffer.accel),
                 !.pose.angular_velocity = Some(buffer.gyro) ]

\* state(), the reads of self.state.  Each getter reads the buffer as it is
\* when called; the getters are taken in three groups, in the code's order.
state_touchpad(t) ==
    /\ polls[t].pc = "touchpad"
    /\ polls' = [ polls EXCEPT ![t] =
            [ pc |-> "buttons", out |-> touchpad_read(polls[t].out, gamepad.state) ] ]
    /\ UNCHANGED <<controller, gamepad, ret, events>>
    /\ UNCHANGED openvr_vars

state_buttons(t) ==
    /\ polls[t].pc = "buttons"
    /\ polls' = [ polls EXCEPT ![t] =
            [ pc |-> "motion", out |-> buttons_read(polls[t].out, gamepad.state) ] ]
    /\ UNCHANGED <<controller, gamepad, ret, events>>
    /\ UNCHANGED openvr_vars

state_motion(t) ==
    /\ polls[t].pc = "motion"
    /\ ret' = [ call |-> "state", by |-> t,
                out |-> motion_read(polls[t].out, gamepad.state) ]
    /\ polls' = [ polls EXCEPT ![t] = Idle ]
    /\ UNCHANGED <<controller, gamepad, events>>
    /\ UNCHANGED openvr_vars

\* the controller moves on to another state
ControllerUpdate ==
    /\ \E sample \in ControllerSamples : sample # controller /\ controller' = sample
    /\ UNCHANGED <<gamepad, polls, ret, events>>
    /\ UNCHANGED openvr_vars

\* the most pause and resume calls of the vendor's that a run makes
MaxVendorCalls == 4

\* no handle_events under way, the vendor's controller API not yet called
NoEvents == [ pc |-> "idle", calls |-> <<>> ]

\* pause(), called from the Java main thread
pause ==
    /\ gamepad' = [ gamepad EXCEPT !.system_paused = TRUE ]
    /\ UNCHANGED <<controller, polls, ret, events>>
    /\ UNCHANGED openvr_vars

\* resume(), called from the Java main thread
resume ==
    /\ gamepad' = [ gamepad EXCEPT !.system_paused = FALSE ]
    /\ UNCHANGED <<controller, polls, ret, events>>
    /\ UNCHANGED openvr_vars

\* handle_events on the polling thread, the comparison: it returns when
\* system_paused and paused agree
handle_events_compare ==
    /\ events.pc = "idle"
    /\ Len(events.calls) < MaxVendorCalls
    /\ IF gamepad.system_paused = gamepad.paused
       THEN /\ ret' = [ call |-> "handle_events", issued |-> None ]
            /\ UNCHANGED events
       ELSE /\ events' = [ events EXCEPT !.pc = "assign" ]
            /\ UNCHANGED ret
    /\ UNCHANGED <<controller, gamepad, polls>>
    /\ UNCHANGED openvr_vars

\* handle_events, the rest: system_paused is read again into paused, and the
\* vendor is called as the new value of paused says
handle_events_apply ==
    /\ events.pc = "assign"
    /\ gamepad' = [ gamepad EXCEPT !.paused = gamepad.system_paused ]
    /\ LET fn == IF gamepad'.paused THEN "gvr_controller_pause" ELSE "gvr_controller_resume"
       IN  /\ events' = [ pc |-> "idle", calls |-> Append(events.calls, fn) ]
           /\ ret' = [ call |-> "handle_events", issued |-> Some(fn) ]
    /\ UNCHANGED <<controller, polls>>
    /\ UNCHANGED openvr_vars

-----------------------------------------------------------------------------
(* Specifications *)

InitDevice ==
    /\ device = OpenVRDevice_new
    /\ seconds = None
    /\ fetched = None
    /\ ret = NoCall

InitGamepad ==
    /\ controller \in ControllerSamples
    /\ gamepad = GoogleVRGamepad_new(controller)
    /\ polls = [ t \in Pollers |-> Idle ]
    /\ events = NoEvents

\* no gamepad is polled: one controller state, no poll under way
NoGamepad ==
    /\ InitGamepad
    /\ controller.connection_state = "GVR_CONTROLLER_DISCONNECTED"

\* The device polled while the tracked pose changes, the timing telemetry fixed.
Init ==
    /\ vsync = Some(9)
    /\ props = [ freq |-> Some(DefaultHz), v2p |-> Some(MaxPhotonTicks) ]
    /\ tracked \in PoseSamples
    /\ eye_to_head \in EyeConfigs
    /\ runtime = NoDisplay
    /\ InitDevice
    /\ NoGamepad

Next == TrackingUpdate \/ get_pose \/ get_frame_data

Spec == Init /\ [][Next]_vars

\* The device polled under every timing telemetry, the tracked pose fixed.
InitPredict ==
    /\ vsync \in Option(0..MaxVsyncTicks)
    /\ props \in [ freq : Option(Frequencies), v2p : Option(0..MaxPhotonTicks) ]
    /\ tracked = [ bPoseIsValid |-> 1,
                   mDeviceToAbsoluteTracking |-> Transform(IdentityRotation, <<0, 1, 0>>),
                   vVelocity |-> <<0, 0, 0>>, vAngularVelocity |-> <<0, 0, 0>> ]
    /\ eye_to_head \in EyeConfigs
    /\ runtime = NoDisplay
    /\ InitDevice
    /\ NoGamepad

NextPredict == get_pose \/ get_frame_data

SpecPredict == InitPredict /\ [][NextPredict]_vars

\* The gamepad polled from two threads while the controller's state changes.
InitGooglevr ==
    /\ vsync = None
    /\ props = [ freq |-> None, v2p |-> None ]
    /\ tracked = [ bPoseIsValid |-> 0,
                   mDeviceToAbsoluteTracking |-> Transform(IdentityRotation, <<0, 1, 0>>),
                   vVelocity |-> <<0, 0, 0>>, vAngularVelocity |-> <<0, 0, 0>> ]
    /\ eye_to_head \in { e \in EyeConfigs : RotationPart(e.Eye_Left) = IdentityRotation }
    /\ runtime = NoDisplay
    /\ InitDevice
    /\ InitGamepad

NextGooglevr ==
    \/ ControllerUpdate
    \/ \E t \in Pollers :
        \/ state_update(t)
        \/ state_touchpad(t)
        \/ state_buttons(t)
        \/ state_motion(t)

SpecGooglevr == InitGooglevr /\ [][NextGooglevr]_vars

\* The device polled once, the tracking subsystem reporting any matrix.
InitQuat ==
    /\ vsync = Some(9)
    /\ props = [ freq |-> Some(DefaultHz), v2p |-> Some(MaxPhotonTicks) ]
    /\ tracked \in { [ bPoseIsValid |-> 1, mDeviceToAbsoluteTracking |-> m,
                       vVelocity |-> <<0, 0, 0>>, vAngularVelocity |-> <<0, 0, 0>> ] :
                     m \in AnyTransforms }
    /\ eye_to_head \in { e \in EyeConfigs : RotationPart(e.Eye_Left) = IdentityRotation }
    /\ runtime = NoDisplay
    /\ InitDevice
    /\ NoGamepad

NextQuat == get_pose

SpecQuat == InitQuat /\ [][NextQuat]_vars

\* The display described and frames submitted, under every runtime.
InitDisplay ==
    /\ vsync = None
    /\ props = [ freq |-> None, v2p |-> None ]
    /\ tracked = [ bPoseIsValid |-> 0,
                   mDeviceToAbsoluteTracking |-> Transform(IdentityRotation, <<0, 1, 0>>),
                   vVelocity |-> <<0, 0, 0>>, vAngularVelocity |-> <<0, 0, 0>> ]
    /\ eye_to_head \in { e \in EyeConfigs : RotationPart(e.Eye_Left) = IdentityRotation }
    /\ runtime \in Runtimes
    /\ InitDevice
    /\ NoGamepad

NextDisplay == get_display_data \/ submit_frame

SpecDisplay == InitDisplay /\ [][NextDisplay]_vars

\* The platform pausing and resuming the gamepad while events are handled.
InitPause ==
    /\ vsync = None
    /\ props = [ freq |-> None, v2p |-> None ]
    /\ tracked = [ bPoseIsValid |-> 0,
                   mDeviceToAbsoluteTracking |-> Transform(IdentityRotation, <<0, 1, 0>>),
                   vVelocity |-> <<0, 0, 0>>, vAngularVelocity |-> <<0, 0, 0>> ]
    /\ eye_to_head \in { e \in EyeConfigs : RotationPart(e.Eye_Left) = IdentityRotation }
    /\ runtime = NoDisplay
    /\ InitDevice
    /\ InitGamepad

NextPause == pause \/ resume \/ handle_events_compare \/ handle_events_apply

SpecPause == InitPause /\ [][NextPause]_vars

-----------------------------------------------------------------------------
(* Time-to-photons claims, checked under SpecPredict.  The telemetry       *)
(* (vsync, props) does not change there, so the state after a poll holds   *)
(* both the inputs and the value get_seconds_to_photons returned for them. *)

\* the display frequency the prediction uses: the reported one, or 90
display_hz_used == IF props.freq = None THEN 90 ELSE props.freq[1]

\* one frame lasts 1 / display_hz_used second
frame_ticks == TicksPerSecond \div display_hz_used

fallback_fires == vsync = None \/ props.v2p = None

\* C1 as claimed: the predicted time-to-photons is non-negative for every
\* combination of last-vsync time, display frequency and vsync-to-photon
\* latency.
C1_seconds_never_negative ==
    seconds # None => seconds[1] >= 0

\* C1 as amended: the predicted time-to-photons is non-negative whenever a
\* fallback fires, and whenever both measurements are available with a
\* non-negative vsync-to-photon latency and a last-vsync time of at most one
\* frame duration.
C1_seconds_non_negative_within_frame ==
    (/\ seconds # None
     /\ \/ fallback_fires
        \/ (vsync[1] <= frame_ticks /\ props.v2p[1] >= 0))
    => seconds[1] >= 0

\* C1 witness: a poll predicted with the last vsync exactly one frame ago
C1_witness ==
    /\ seconds # None
    /\ ~fallback_fires
    /\ vsync[1] = frame_ticks
    /\ props.v2p[1] = 0
    /\ seconds[1] = 0

\* C2: the prediction is exactly 0.04 s whenever the last-vsync query fails,
\* and whenever the vsync time is known but the vsync-to-photon latency is
\* not, whatever the other inputs are.
C2_fallback_is_default ==
    (seconds # None /\ fallback_fires) => 100 * seconds[1] = 4 * TicksPerSecond

\* C2 witness: predict_seconds(Some(0.005), Some(90.0), None)
C2_witness ==
    /\ seconds # None
    /\ vsync = Some(9)
    /\ props = [ freq |-> Some(90), v2p |-> None ]
    /\ 100 * seconds[1] = 4 * TicksPerSecond

\* C3: with both the last-vsync time and the vsync-to-photon latency known,
\* the prediction is frame_duration - last_vsync + vsync_to_photon, where
\* frame_duration is 1 / display_hz and display_hz is the reported frequency
\* or 90.
C3_prediction_formula ==
    (seconds # None /\ ~fallback_fires)
    => /\ seconds[1] = frame_ticks - vsync[1] + props.v2p[1]
       /\ display_hz_used * (seconds[1] + vsync[1] - props.v2p[1]) = TicksPerSecond

\* C3 witness: a prediction with the frequency property unavailable
C3_witness ==
    /\ seconds # None
    /\ vsync = Some(0)
    /\ props = [ freq |-> None, v2p |-> Some(MaxPhotonTicks) ]
    /\ seconds[1] = 20 + MaxPhotonTicks

-----------------------------------------------------------------------------
(* Frame-data and pose claims, checked under Spec.  After a poll, fetched  *)
(* holds the sample the poll read and ret the value it returned.           *)

polled(call) == ret.call = call /\ fetched # None

\* the 16 floats of a 3x4 transform, row after row, closed by (0, 0, 0, 1)
Rows16(m) ==
    [ i \in 1..16 |->
        IF i <= 12 THEN m[((i - 1) \div 4) + 1][((i - 1) % 4) + 1]
        ELSE IF i = 16 THEN 1 ELSE 0 ]

\* the transpose of a rotation, which is its inverse
Transpose(R) == [ i \in 1..3 |-> [ j \in 1..3 |-> R[j][i] ] ]

\* the inverse of the rigid transform (R | p): (R^T | -R^T p)
RigidInverse(m) ==
    LET Rt == Transpose(RotationPart(m))
        p == << m[1][4], m[2][4], m[3][4] >>
    IN  Transform(Rt, [ i \in 1..3 |->
            0 - (Rt[i][1] * p[1] + Rt[i][2] * p[2] + Rt[i][3] * p[3]) ])

\* the product of two 4x4 matrices given as 16 floats, row after row
Product16(a, b) ==
    [ i \in 1..16 |->
        LET r == (i - 1) \div 4
            c == (i - 1) % 4
        IN  a[4*r + 1] * b[c + 1] + a[4*r + 2] * b[c + 5]
              + a[4*r + 3] * b[c + 9] + a[4*r + 4] * b[c + 13] ]

\* C4: with an invalid pose sample, get_frame_data returns view matrices equal
\* to the left and right eye-to-head transforms; nothing of the invalid
\* sample's transform shows in them.
C4_invalid_pose_gives_eye_transforms ==
    (polled("get_frame_data") /\ fetched[1].bPoseIsValid = 0)
    => /\ ret.data.left_view_matrix = Rows16(eye_to_head.Eye_Left)
       /\ ret.data.right_view_matrix = Rows16(eye_to_head.Eye_Right)

\* C4 witness: frame data assembled from an invalid sample that carries a
\* turned and displaced transform, the displays canted
C4_witness ==
    /\ polled("get_frame_data")
    /\ fetched[1].bPoseIsValid = 0
    /\ RotationPart(fetched[1].mDeviceToAbsoluteTracking) = YawQuarterTurn
    /\ openvr_matrix_to_position(fetched[1].mDeviceToAbsoluteTracking) = <<1, 2, -2>>
    /\ RotationPart(eye_to_head.Eye_Left) # IdentityRotation
    /\ ret.data.left_view_matrix = Rows16(eye_to_head.Eye_Left)

\* C5 as claimed: for a valid head pose sample, each eye's view matrix is the
\* inverse of the head pose transform multiplied by that eye's eye-to-head
\* transform.
C5_view_is_inverse_head_times_eye ==
    (polled("get_frame_data") /\ fetched[1].bPoseIsValid = 1)
    => LET head_inverse == Rows16(RigidInverse(fetched[1].mDeviceToAbsoluteTracking))
       IN  /\ ret.data.left_view_matrix
                = Product16(head_inverse, Rows16(eye_to_head.Eye_Left))
           /\ ret.data.right_view_matrix
                = Product16(head_inverse, Rows16(eye_to_head.Eye_Right))

\* C6: get_pose returns one of two presence patterns, chosen by the sample's
\* validity flag alone: every field absent for an invalid sample; for a valid
\* one orientation, position, linear and angular velocity present, taken from
\* that sample, and both accelerations absent.
C6_pose_presence_follows_validity ==
    polled("get_pose")
    => IF fetched[1].bPoseIsValid = 0
       THEN /\ ret.pose.orientation = None
            /\ ret.pose.position = None
            /\ ret.pose.linear_velocity = None
            /\ ret.pose.angular_velocity = None
            /\ ret.pose.linear_acceleration = None
            /\ ret.pose.angular_acceleration = None
       ELSE /\ Len(ret.pose.orientation) = 1
            /\ ret.pose.position =
                 << << fetched[1].mDeviceToAbsoluteTracking[1][4],
                       fetched[1].mDeviceToAbsoluteTracking[2][4],
                       fetched[1].mDeviceToAbsoluteTracking[3][4] >> >>
            /\ ret.pose.linear_velocity = << fetched[1].vVelocity >>
            /\ ret.pose.angular_velocity = << fetched[1].vAngularVelocity >>
            /\ ret.pose.linear_acceleration = None
            /\ ret.pose.angular_acceleration = None

\* C6 witness: get_pose has returned the empty pose for an invalid sample
\* that carries a displaced transform and non-zero velocities
C6_witness ==
    /\ polled("get_pose")
    /\ fetched[1].bPoseIsValid = 0
    /\ openvr_matrix_to_position(fetched[1].mDeviceToAbsoluteTracking) = <<1, 2, -2>>
    /\ fetched[1].vVelocity = <<1, -1, 2>>
    /\ ret.pose.position = None
    /\ ret.pose.linear_velocity = None

\* what a call returns for a sample
result_of(r, sample) ==
    IF r.call = "get_pose"
    THEN [ call |-> "get_pose", pose |-> pose_of(sample) ]
    ELSE [ call |-> "get_frame_data", near_z |-> r.near_z, far_z |-> r.far_z,
           data |-> frame_data_of(sample, r.near_z, r.far_z) ]

\* C7: every poll, however polls and changes of the tracked pose interleave,
\* fetches the tracking subsystem's pose of that moment and computes its
\* result from that sample alone, and changes neither the device nor the
\* tracking subsystem.
C7_polls_read_latest_sample ==
    [][ (ret' # ret \/ fetched' # fetched \/ seconds' # seconds)
        => /\ fetched' = Some(tracked)
           /\ ret' = result_of(ret', tracked)
           /\ device' = device
           /\ tracked' = tracked ]_vars

\* C7 witness: a poll has returned and the tracked pose has changed since
C7_witness ==
    /\ polled("get_frame_data")
    /\ fetched[1] # tracked
    /\ fetched[1].bPoseIsValid = 1
    /\ tracked.bPoseIsValid = 1
    /\ ret = result_of(ret, fetched[1])
    /\ ret # result_of(ret, tracked)

-----------------------------------------------------------------------------
(* Quaternion claims, checked under Spec, whose tracked pose takes each of *)
(* the 24 axis rotations.  For q = (x, y, z, w) / (2 * sqrt(s2)) and       *)
(* n = 4 * s2, every product of two components is an integer over n.       *)

\* q is a unit quaternion: (x^2 + y^2 + z^2 + w^2) / n = 1
IsUnitQuat(q) ==
    /\ q.s2 > 0
    /\ q.x * q.x + q.y * q.y + q.z * q.z + q.w * q.w = 4 * q.s2

\* n times the rotation matrix of q, entry by entry:
\*   1 - 2(yy + zz)   2(xy - zw)       2(xz + yw)
\*   2(xy + zw)       1 - 2(xx + zz)   2(yz - xw)
\*   2(xz - yw)       2(yz + xw)       1 - 2(xx + yy)
QuatMatrixTimesN(q) ==
    LET n == 4 * q.s2
    IN  << << n - 2 * (q.y * q.y + q.z * q.z), 2 * (q.x * q.y - q.z * q.w),
              2 * (q.x * q.z + q.y * q.w) >>,
           << 2 * (q.x * q.y + q.z * q.w), n - 2 * (q.x * q.x + q.z * q.z),
              2 * (q.y * q.z - q.x * q.w) >>,
           << 2 * (q.x * q.z - q.y * q.w), 2 * (q.y * q.z + q.x * q.w),
              n - 2 * (q.x * q.x + q.y * q.y) >> >>

\* the rotation matrix of q is R
QuatRotates(q, R) ==
    /\ q.s2 > 0
    /\ \A i, j \in 1..3 : QuatMatrixTimesN(q)[i][j] = 4 * q.s2 * R[i][j]

\* the branch of rot_matrix_to_quat an orthonormal R takes
BranchOf(R) ==
    IF R[1][1] + R[2][2] + R[3][3] >= 0 THEN "w"
    ELSE IF R[1][1] > R[2][2] /\ R[1][1] > R[3][3] THEN "x"
    ELSE IF R[2][2] > R[3][3] THEN "y"
    ELSE "z"

\* C9: for each of the 24 axis rotations R, the orientation get_pose returns
\* for a valid sample with rotation part R is a unit quaternion whose rotation
\* matrix is R, whichever branch of rot_matrix_to_quat is taken.
C9_quaternion_round_trip ==
    (polled("get_pose") /\ fetched[1].bPoseIsValid = 1)
    => LET q == ret.pose.orientation[1]
           R == RotationPart(fetched[1].mDeviceToAbsoluteTracking)
       IN  /\ R \in AxisRotations
           /\ IsUnitQuat(q)
           /\ QuatRotates(q, R)

\* C9 witness: a half turn about the axis x = y in the plane z = 0, which
\* takes the m11 branch with s = sqrt(2)
C9_witness ==
    /\ polled("get_pose")
    /\ fetched[1].bPoseIsValid = 1
    /\ RotationPart(fetched[1].mDeviceToAbsoluteTracking)
         = << <<0, 1, 0>>, <<1, 0, 0>>, <<0, 0, -1>> >>
    /\ BranchOf(RotationPart(fetched[1].mDeviceToAbsoluteTracking)) = "y"
    /\ ret.pose.orientation = << [ s2 |-> 2, x |-> 2, y |-> 2, z |-> 0, w |-> 0 ] >>

\* q is exactly (a, b, c, d), for whole numbers a, b, c, d
QuatIs(q, a, b, c, d) ==
    \E s \in 1..4 :
        /\ s * s = q.s2
        /\ q.x = 2 * s * a
        /\ q.y = 2 * s * b
        /\ q.z = 2 * s * c
        /\ q.w = 2 * s * d

\* C10: for a transform whose rotation part is the identity, with any
\* translation column, the orientation is exactly (x, y, z, w) = (0, 0, 0, 1).
C10_identity_gives_unit_w ==
    (/\ polled("get_pose")
     /\ fetched[1].bPoseIsValid = 1
     /\ RotationPart(fetched[1].mDeviceToAbsoluteTracking) = IdentityRotation)
    => QuatIs(ret.pose.orientation[1], 0, 0, 0, 1)

\* C10 witness: the identity rotation with a non-zero translation column
C10_witness ==
    /\ polled("get_pose")
    /\ fetched[1].bPoseIsValid = 1
    /\ fetched[1].mDeviceToAbsoluteTracking
         = << <<1, 0, 0, 1>>, <<0, 1, 0, 2>>, <<0, 0, 1, -2>> >>
    /\ QuatIs(ret.pose.orientation[1], 0, 0, 0, 1)

-----------------------------------------------------------------------------
(* Raw-sample buffer claim, checked under SpecGooglevr.  get_pose and      *)
(* get_frame_data fill an array of their own frame (fetched); state()      *)
(* fills self.state, the one buffer of the gamepad.                        *)

\* the VRGamepadState that state() builds from one controller state
state_of(sample) ==
    motion_read(
        buttons_read(
            touchpad_read([ VRGamepadState_default EXCEPT !.gamepad_id = gamepad.gamepad_id ],
                          sample),
            sample),
        sample)

\* C8 as claimed: every poll reads the raw sample from a buffer of its own,
\* so that when two polls of the same gamepad interleave neither reads what
\* the other wrote: each returned state is built from one controller state.
C8_state_from_one_sample ==
    ret.call = "state" => \E sample \in ControllerSamples : ret.out = state_of(sample)

-----------------------------------------------------------------------------
(* Field-of-view claim, checked under SpecDisplay.  The runtime does not   *)
(* change there, so the state after get_display_data holds both the raw    *)
(* tangents and the angles computed from them.                             *)

\* the eye parameters of the display data returned last, per eye
eye_parameters_of(eye) ==
    IF eye = "Eye_Left" THEN ret.data.left_eye_parameters ELSE ret.data.right_eye_parameters

\* the angle of each tangent of the model, by trigonometry: tan 10 = 0.176..,
\* tan 30 = 0.577.., tan 45 = 1, and tan(-a) = -tan a
Degrees(t) ==
    CASE t = 176 -> 10
      [] t = 0 - 176 -> -10
      [] t = 577 -> 30
      [] t = 0 - 577 -> -30
      [] t = 1000 -> 45
      [] t = 0 - 1000 -> -45
      [] t = 0 -> 0

\* C11: the field of view of each eye holds, for every side, the angle of the
\* raw tangent of the same side in degrees (top for up, bottom for down),
\* negated for up and left and as it is for down and right; four equal
\* tangents of 10 degrees give up = left = -10 and down = right = 10.
C11_fov_is_atan_in_degrees_up_and_left_negated ==
    ret.call = "get_display_data" =>
        \A eye \in EVREye :
            LET raw == runtime.projection[eye]
                fov == eye_parameters_of(eye).field_of_view
            IN  /\ fov.up_degrees = 0 - Degrees(raw.top)
                /\ fov.left_degrees = 0 - Degrees(raw.left)
                /\ fov.down_degrees = Degrees(raw.bottom)
                /\ fov.right_degrees = Degrees(raw.right)
                /\ (raw = [ left |-> 176, right |-> 176, top |-> 176, bottom |-> 176 ] =>
                        fov = [ up_degrees |-> -10, left_degrees |-> -10,
                                down_degrees |-> 10, right_degrees |-> 10 ])

\* display data was fetched from a runtime whose left eye has four equal
\* tangents of 10 degrees; the right eye's are their mirror images
C11_witness ==
    /\ ret.call = "get_display_data"
    /\ runtime.projection.Eye_Left = [ left |-> 176, right |-> 176, top |-> 176, bottom |-> 176 ]
    /\ ret.data.left_eye_parameters.field_of_view.up_degrees = -10
    /\ ret.data.left_eye_parameters.field_of_view.down_degrees = 10
    /\ ret.data.right_eye_parameters.field_of_view.left_degrees = 10

-----------------------------------------------------------------------------
(* Square-root claim, checked under SpecQuat, where the matrix of a valid  *)
(* sample is any matrix of axis columns.  The s2 of the orientation is the *)
(* argument of the square root in the branch rot_matrix_to_quat took.      *)

\* the matrix with every entry zero, and any translation column
IsZeroRotation(m) == RotationPart(m) = << <<0, 0, 0>>, <<0, 0, 0>>, <<0, 0, 0>> >>

\* C12: whatever matrix a valid sample holds (a rotation or not, the zero
\* matrix included), the argument of the square root in the branch taken is
\* at least 1, so it is not negative and s, its root, is at least 1 and not
\* zero; for the zero matrix it is exactly 1.
C12_sqrt_argument_at_least_one ==
    (polled("get_pose") /\ fetched[1].bPoseIsValid = 1)
    => LET q == ret.pose.orientation[1]
       IN  /\ q.s2 >= 1
           /\ IsZeroRotation(fetched[1].mDeviceToAbsoluteTracking) => q.s2 = 1

\* C12 witness: a point reflection scaled by 2, which is no rotation, has a
\* negative trace and equal diagonal entries, and takes the last branch
C12_witness ==
    /\ polled("get_pose")
    /\ fetched[1].bPoseIsValid = 1
    /\ RotationPart(fetched[1].mDeviceToAbsoluteTracking)
         = << <<-2, 0, 0>>, <<0, -2, 0>>, <<0, 0, -2>> >>
    /\ ret.pose.orientation = << [ s2 |-> 2, x |-> 0, y |-> 0, z |-> 2, w |-> 0 ] >>

-----------------------------------------------------------------------------
(* Pause/resume claim, checked under SpecPause.  events.calls is the       *)
(* sequence of gvr_controller_pause and gvr_controller_resume calls the    *)
(* vendor has received; only handle_events appends to it.                  *)

\* C13: however pause() and resume() of the platform thread interleave with
\* handle_events of the polling thread, the vendor's pause and resume calls
\* alternate, starting with a pause: the 1st, 3rd, .. call is
\* gvr_controller_pause and the 2nd, 4th, .. is gvr_controller_resume.
C13_vendor_calls_alternate ==
    \A i \in 1..Len(events.calls) :
        events.calls[i] = IF i % 2 = 1 THEN "gvr_controller_pause"
                                       ELSE "gvr_controller_resume"

-----------------------------------------------------------------------------
(* Frame submission claim, checked under SpecDisplay.  The runtime does    *)
(* not change there: a compositor that is available to one submit_frame    *)
(* was available to the earlier ones.                                      *)

\* C14: when the runtime hands out its compositor with no init error,
\* submit_frame submits the left eye, then the right eye, then hands off,
\* and leaves the device holding the compositor, so that a later call does
\* not ask for it again; when the compositor cannot be obtained it returns
\* with no vendor call made.
C14_submit_frame_presents_with_compositor ==
    ret.call = "submit_frame" =>
        IF runtime.compositor_available
        THEN /\ Len(ret.calls) = 3
             /\ ret.calls[1].fn = "Submit" /\ ret.calls[1].eye = "Eye_Left"
             /\ ret.calls[2].fn = "Submit" /\ ret.calls[2].eye = "Eye_Right"
             /\ ret.calls[3].fn = "PostPresentHandoff"
             /\ device.compositor # "null"
        ELSE ret.calls = <<>>

=============================================================================
